---- MODULE Spec2Model ----
(***************************************************************************)
(* TextGrid to ASS karaoke converter (src/main.py).                        *)
(*                                                                         *)
(* Times are integers counting milliseconds; a text is a sequence of       *)
(* one-character strings; a piece of ASS markup is a sequence of tokens,   *)
(* each either a character or a {\K<n>} tag.  Python's None is the empty   *)
(* tuple and a present value v is the one-element tuple <<v>>.             *)
(***************************************************************************)
EXTENDS Integers, Sequences, FiniteSets, TLC

(***************************************************************************)
(* Bounds of the model.                                                    *)
(***************************************************************************)
\* longest interval list handed to the converter
MaxWords == 3
\* interval boundaries lie on the ticks 0..MaxTick
MaxTick == 4
\* milliseconds per tick
TimeStep == 5

Times == {k * TimeStep : k \in 0..MaxTick}

(***************************************************************************)
(* Option values (None / a float).                                         *)
(***************************************************************************)
None == <<>>
Some(v) == <<v>>
Val(o) == o[1]

(***************************************************************************)
(* Strings: str.strip, the `in' test on strings, str.replace.              *)
(***************************************************************************)
Whitespace == {" ", "\t", "\n"}

RECURSIVE lstrip(_)
lstrip(t) ==
    IF t # <<>> /\ Head(t) \in Whitespace THEN lstrip(Tail(t)) ELSE t

RECURSIVE rstrip(_)
rstrip(t) ==
    IF t # <<>> /\ t[Len(t)] \in Whitespace
    THEN rstrip(SubSeq(t, 1, Len(t) - 1))
    ELSE t

strip(t) == rstrip(lstrip(t))

\* m in t
contains(m, t) ==
    \E i \in 1..(Len(t) - Len(m) + 1) : SubSeq(t, i, i + Len(m) - 1) = m

\* t.replace(m, r) for a non-empty m: left to right, non-overlapping
RECURSIVE replace(_, _, _)
replace(t, m, r) ==
    IF Len(t) < Len(m) THEN t
    ELSE IF SubSeq(t, 1, Len(m)) = m
         THEN r \o replace(SubSeq(t, Len(m) + 1, Len(t)), m, r)
         ELSE <<Head(t)>> \o replace(Tail(t), m, r)

(***************************************************************************)
(* Numbers: int() truncates toward zero.  A time x ms is x/1000 seconds,   *)
(* so seconds * 100 is x/10.                                               *)
(***************************************************************************)
int_div(a, b) == IF a >= 0 THEN a \div b ELSE -((-a) \div b)

\* int(seconds * 100): a span in ms to whole centiseconds
centiseconds_of(ms) == int_div(ms, 10)

\* format_time: the fields of h:mm:ss.cc, for seconds >= 0
format_time(ms) ==
    LET hours   == int_div(ms, 3600000)
        minutes == int_div(ms % 3600000, 60000)
        seconds == ms % 60000
        cs      == int_div((seconds - int_div(seconds, 1000) * 1000) * 100, 1000)
    IN  <<hours, minutes, int_div(seconds, 1000), cs>>

(***************************************************************************)
(* Markup tokens.                                                          *)
(***************************************************************************)
Tag(n) == [k |-> "K", n |-> n, c |-> ""]
Chr(c) == [k |-> "c", n |-> 0, c |-> c]
Chars(t) == [i \in 1..Len(t) |-> Chr(t[i])]

(***************************************************************************)
(* group_into_phrases: preprocessing (the first loop).                     *)
(***************************************************************************)
SilenceToken == <<"<", "p", ":", ">">>

\* not text.strip() or text == "<p:>"
is_skipped(text) == strip(text) = <<>> \/ text = SilenceToken

\* phrase_marker in text
has_marker_of(text, marker) == contains(marker, text)

\* text.replace(phrase_marker, " ").strip()
clean_text(text, marker) == strip(replace(text, marker, <<" ">>))

\* one iteration of the first loop on the interval iv
filter_interval(filtered, iv, marker) ==
    IF is_skipped(iv.text)
    THEN filtered
    ELSE Append(filtered, [start |-> iv.start, end |-> iv.end, text |-> iv.text,
                           has_marker |-> has_marker_of(iv.text, marker)])

(***************************************************************************)
(* group_into_phrases: grouping (the second loop).  The accumulator acc    *)
(* holds phrases, current_words, current_start, current_end and            *)
(* last_phrase_end; w is the filtered word at hand and aw the word as it   *)
(* is stored in a phrase.                                                  *)
(***************************************************************************)
phrase_marker_condition_no_gap(w, acc, min_gap) ==
    w.has_marker /\ acc.current_words # <<>>

phrase_marker_condition(w, acc, min_gap) ==
    /\ w.has_marker
    /\ w.start - acc.last_phrase_end >= min_gap
    /\ acc.current_words # <<>>

duration_condition_off(w, acc, target) == FALSE

duration_condition(w, acc, target) ==
    /\ w.end - Val(acc.current_start) > target
    /\ acc.current_words # <<>>

close_phrase_drops_word(acc, aw) ==
    [phrases |-> Append(acc.phrases, [start |-> Val(acc.current_start),
                                      end |-> Val(acc.current_end),
                                      words |-> acc.current_words]),
     last_phrase_end |-> Val(acc.current_end),
     current_words |-> <<>>,
     current_start |-> Some(aw.start),
     current_end |-> Some(aw.end)]

close_phrase_keeps_start(acc, aw) ==
    [phrases |-> Append(acc.phrases, [start |-> Val(acc.current_start),
                                      end |-> Val(acc.current_end),
                                      words |-> acc.current_words]),
     last_phrase_end |-> Val(acc.current_end),
     current_words |-> <<aw>>,
     current_start |-> acc.current_start,
     current_end |-> Some(aw.end)]

\* the branch that completes the current phrase and starts a new one
close_phrase(acc, aw) ==
    [phrases |-> IF acc.current_words # <<>>
                 THEN Append(acc.phrases, [start |-> Val(acc.current_start),
                                           end |-> Val(acc.current_end),
                                           words |-> acc.current_words])
                 ELSE acc.phrases,
     last_phrase_end |-> IF acc.current_words # <<>>
                         THEN Val(acc.current_end)
                         ELSE acc.last_phrase_end,
     current_words |-> <<aw>>,
     current_start |-> Some(aw.start),
     current_end |-> Some(aw.end)]

\* the branch that adds the word to the current phrase
append_word(acc, aw) ==
    [acc EXCEPT !.current_words = Append(@, aw), !.current_end = Some(aw.end)]

\* one iteration of the second loop
group_word(acc0, w, marker, min_gap, target) ==
    LET acc == IF acc0.current_start = None
               THEN [acc0 EXCEPT !.current_start = Some(w.start)]
               ELSE acc0
        aw  == [start |-> w.start, end |-> w.end,
                text |-> clean_text(w.text, marker), has_marker |-> w.has_marker]
    IN  IF phrase_marker_condition(w, acc, min_gap) \/ duration_condition(w, acc, target)
        THEN close_phrase(acc, aw)
        ELSE append_word(acc, aw)

(***************************************************************************)
(* create_karaoke_line and the per-phrase work of create_ass_file.         *)
(***************************************************************************)
inject_space_any_index(i, has_marker) == has_marker

\* i > 0 and has_marker, for the i-th word of the phrase (1-based here)
inject_space(i, has_marker) == i > 1 /\ has_marker

\* what one iteration of create_karaoke_line's loop adds to result
karaoke_word(i, w) ==
    (IF inject_space(i, w.has_marker) THEN <<Chr(" ")>> ELSE <<>>)
    \o <<Tag(centiseconds_of(w.end - w.start))>> \o Chars(w.text) \o <<Chr(" ")>>

RECURSIVE karaoke_prefix(_, _)
karaoke_prefix(words, n) ==
    IF n = 0 THEN <<>> ELSE karaoke_prefix(words, n - 1) \o karaoke_word(n, words[n])

create_karaoke_line(words) == karaoke_prefix(words, Len(words))

shifted_start_of_sign_slip(start, shift) == IF start - shift > 0 THEN start - shift ELSE 0

\* max(0, start + shift_time)
shifted_start_of(start, shift) == IF start + shift > 0 THEN start + shift ELSE 0

lead_in_sign_slip(shift) == centiseconds_of(shift)

\* int(shift_time * -100)
lead_in(shift) == centiseconds_of(-shift)

\* the Dialogue line of one phrase
dialogue(p, shift) ==
    [start_time |-> format_time(shifted_start_of(p.start, shift)),
     end_time   |-> format_time(p.end),
     text       |-> <<Tag(lead_in(shift))>> \o create_karaoke_line(p.words)]

(***************************************************************************)
(* parse_textgrid.  The TextGrid file is taken as already cut into its     *)
(* item blocks: a sequence of [name, intervals], the interval texts as     *)
(* they stand between the quotes.  The result is the dict: its keys in     *)
(* insertion order and the interval list of each key.                      *)
(***************************************************************************)
strip_intervals(ivs) ==
    [i \in 1..Len(ivs) |-> [ivs[i] EXCEPT !.text = strip(@)]]

RECURSIVE dict_keys(_, _)
dict_keys(file, n) ==
    IF n = 0 THEN <<>>
    ELSE LET ks == dict_keys(file, n - 1)
         IN  IF \E j \in 1..Len(ks) : ks[j] = file[n].name
             THEN ks
             ELSE Append(ks, file[n].name)

parse_textgrid(file) ==
    [keys  |-> dict_keys(file, Len(file)),
     items |-> [nm \in {file[i].name : i \in 1..Len(file)} |->
                  LET last == CHOOSE i \in 1..Len(file) :
                                  /\ file[i].name = nm
                                  /\ \A j \in 1..Len(file) : file[j].name = nm => j <= i
                  IN  strip_intervals(file[last].intervals)]]

has_tier(tiers, name) == \E j \in 1..Len(tiers.keys) : tiers.keys[j] = name

(***************************************************************************)
(* The state.                                                              *)
(***************************************************************************)
VARIABLES
    pc,                 \* the function the program is in, or how it ended
    stack,              \* <<"main">> while main's call of create_ass_file runs
    file,               \* the TextGrid file's item blocks
    args,               \* main: the parsed command line
    tiers,              \* main: parse_textgrid's result
    outfile,            \* the output path: [exists, events]
    stdout,             \* the lines printed
    intervals,          \* create_ass_file's arguments
    phrase_marker,
    min_phrase_gap,
    target_duration,
    shift_time,
    filtered_intervals, \* group_into_phrases' locals
    fi,                 \* next interval of the first loop
    gi,                 \* next word of the second loop
    acc,                \* phrases, current_words, current_start, current_end, last_phrase_end
    phrases,            \* create_ass_file's locals
    events,
    ei,                 \* next phrase of the events loop
    shifted_start

vars == <<pc, stack, file, args, tiers, outfile, stdout, intervals, phrase_marker,
          min_phrase_gap, target_duration, shift_time, filtered_intervals, fi, gi,
          acc, phrases, events, ei, shifted_start>>

mainVars == <<file, args, tiers>>
paramVars == <<intervals, phrase_marker, min_phrase_gap, target_duration, shift_time>>
groupVars == <<filtered_intervals, fi, gi, acc>>
eventVars == <<phrases, events, ei, shifted_start>>

(***************************************************************************)
(* Inputs.                                                                 *)
(***************************************************************************)
EpsMarker == <<"<", "e", "p", "s", ">">>

TxtWord     == <<"a">>
TxtMarked   == <<"<", "e", "p", "s", ">", "b">>
TxtBlank    == <<" ">>
TxtEmpty    == <<>>
TxtPadded   == <<" ", "<", "p", ":", ">", " ">>
TxtTrailing == <<"a", "<", "e", "p", "s", ">">>

Texts == {SilenceToken, TxtWord, TxtMarked}
RawTexts == Texts \cup {TxtBlank, TxtEmpty, TxtPadded, TxtTrailing}

MinGaps == {0, 2 * TimeStep}
TargetDurations == {TimeStep, 2 * TimeStep}
Shifts == {-500, -15, 0, 5, 25}

IntervalsFrom(from, texts) ==
    {[start |-> p[1], end |-> p[2], text |-> t] :
        p \in {q \in Times \X Times : q[1] >= from /\ q[1] < q[2]}, t \in texts}

\* the lists of at most n intervals, sorted and not overlapping, from `from' on
RECURSIVE SortedLists(_, _, _)
SortedLists(n, from, texts) ==
    IF n = 0 THEN {<<>>}
    ELSE {<<>>} \cup
         UNION {{<<iv>> \o r : r \in SortedLists(n - 1, iv.end, texts)} :
                   iv \in IntervalsFrom(from, texts)}

\* the lists of at most n intervals in any order, overlapping or not
AnyLists(n, ticks, texts) ==
    LET ivs == {[start |-> p[1] * TimeStep, end |-> p[2] * TimeStep, text |-> t] :
                   p \in {q \in ticks \X ticks : q[1] < q[2]}, t \in texts}
    IN  UNION {[1..k -> ivs] : k \in 0..n}

\* the k-th of k back-to-back intervals of one tick each
Slot(k, t) == [start |-> (k - 1) * TimeStep, end |-> k * TimeStep, text |-> t]

TextLists(n, texts) ==
    UNION {{[i \in 1..k |-> Slot(i, f[i])] : f \in [1..k -> texts]} : k \in 0..n}

EmptyAcc ==
    [phrases |-> <<>>, current_words |-> <<>>, current_start |-> None,
     current_end |-> None, last_phrase_end |-> 0]

NoFile == [exists |-> FALSE, events |-> <<>>]
OldFile == [exists |-> TRUE, events |-> <<"old">>]

\* the locals before anything ran
Fresh ==
    /\ filtered_intervals = <<>>
    /\ fi = 1
    /\ gi = 1
    /\ acc = EmptyAcc
    /\ phrases = <<>>
    /\ events = <<>>
    /\ ei = 1
    /\ shifted_start = None
    /\ stdout = <<>>

\* create_ass_file called on its own
InitCall(inputs, markers, gaps, targets, shifts) ==
    /\ pc = "group_into_phrases"
    /\ stack = <<>>
    /\ file = <<>>
    /\ args = [tier |-> "", shift_time |-> None]
    /\ tiers = [keys |-> <<>>, items |-> <<>>]
    /\ outfile \in {NoFile}
    /\ intervals \in inputs
    /\ phrase_marker \in markers
    /\ min_phrase_gap \in gaps
    /\ target_duration \in targets
    /\ shift_time \in {Some(s) : s \in shifts}
    /\ Fresh

Init == InitCall(SortedLists(MaxWords, 0, Texts), {EpsMarker}, MinGaps,
                 TargetDurations, Shifts)

InitAny == InitCall(AnyLists(MaxWords, 0..(MaxTick - 2), Texts),
                    {EpsMarker}, MinGaps, {TimeStep}, {0})

InitTexts == InitCall(TextLists(MaxWords, RawTexts), {EpsMarker, <<"p">>}, {0},
                      {2 * TimeStep}, {0})

(***************************************************************************)
(* group_into_phrases.                                                     *)
(***************************************************************************)
\* one iteration of `for start, end, text in intervals'
FilterStep ==
    /\ pc = "group_into_phrases"
    /\ fi <= Len(intervals)
    /\ filtered_intervals' = filter_interval(filtered_intervals, intervals[fi], phrase_marker)
    /\ fi' = fi + 1
    /\ UNCHANGED <<pc, stack, mainVars, outfile, stdout, paramVars, gi, acc, eventVars>>

\* one iteration of `for start, end, text, has_marker in filtered_intervals'
GroupStep ==
    /\ pc = "group_into_phrases"
    /\ fi > Len(intervals)
    /\ gi <= Len(filtered_intervals)
    /\ acc' = group_word(acc, filtered_intervals[gi], phrase_marker,
                         min_phrase_gap, target_duration)
    /\ gi' = gi + 1
    /\ UNCHANGED <<pc, stack, mainVars, outfile, stdout, paramVars,
                   filtered_intervals, fi, eventVars>>

\* the last phrase
flush(a) ==
    IF a.current_words # <<>> /\ a.current_start # None
    THEN Append(a.phrases, [start |-> Val(a.current_start), end |-> Val(a.current_end),
                            words |-> a.current_words])
    ELSE a.phrases

\* `if current_words and current_start is not None', and the return
GroupReturn ==
    /\ pc = "group_into_phrases"
    /\ fi > Len(intervals)
    /\ gi > Len(filtered_intervals)
    /\ phrases' = flush(acc)
    /\ pc' = "create_ass_file"
    /\ UNCHANGED <<stack, mainVars, outfile, stdout, paramVars, groupVars,
                   events, ei, shifted_start>>

(***************************************************************************)
(* create_ass_file.                                                        *)
(***************************************************************************)
\* one iteration of `for i, (start, end, words) in enumerate(phrases, 1)';
\* start + None raises TypeError
EventStep ==
    /\ pc = "create_ass_file"
    /\ ei <= Len(phrases)
    /\ IF shift_time = None
       THEN /\ pc' = "TypeError"
            /\ UNCHANGED <<events, ei, shifted_start>>
       ELSE /\ shifted_start' = Some(shifted_start_of(phrases[ei].start, Val(shift_time)))
            /\ events' = Append(events, dialogue(phrases[ei], Val(shift_time)))
            /\ ei' = ei + 1
            /\ pc' = pc
    /\ UNCHANGED <<stack, mainVars, outfile, stdout, paramVars, groupVars, phrases>>

\* `with open(output_file, 'w')': the header and the events, and the return
WriteFile ==
    /\ pc = "create_ass_file"
    /\ ei > Len(phrases)
    /\ outfile' = [exists |-> TRUE, events |-> <<"header">> \o events]
    /\ pc' = IF stack = <<>> THEN "done" ELSE "main_return"
    /\ stack' = <<>>
    /\ UNCHANGED <<mainVars, stdout, paramVars, groupVars, eventVars>>

(***************************************************************************)
(* main.                                                                   *)
(***************************************************************************)
ParseTextgrid ==
    /\ pc = "main"
    /\ tiers' = parse_textgrid(file)
    /\ pc' = "main_check"
    /\ UNCHANGED <<stack, file, args, outfile, stdout, paramVars, groupVars, eventVars>>

Line(msg, names) == [msg |-> msg, tiers |-> names]

tier_check_inverted(t, name) == has_tier(t, name)

\* args.tier not in tiers
tier_missing(t, name) == ~has_tier(t, name)

\* the message and the return
TierNotFound ==
    /\ pc = "main_check"
    /\ tier_missing(tiers, args.tier)
    /\ stdout' = Append(stdout, Line("not found", tiers.keys))
    /\ pc' = "done"
    /\ UNCHANGED <<stack, mainVars, outfile, paramVars, groupVars, eventVars>>

\* the call create_ass_file(tiers[args.tier], ...); tiers[args.tier] raises
\* KeyError for a missing key
CallCreateAssFile ==
    /\ pc = "main_check"
    /\ ~tier_missing(tiers, args.tier)
    /\ IF has_tier(tiers, args.tier)
       THEN /\ intervals' = tiers.items[args.tier]
            /\ phrase_marker' = args.phrase_marker
            /\ min_phrase_gap' = args.min_phrase_gap
            /\ target_duration' = args.target_duration
            /\ shift_time' = args.shift_time
            /\ stack' = <<"main">>
            /\ pc' = "group_into_phrases"
       ELSE /\ pc' = "KeyError"
            /\ UNCHANGED <<stack, paramVars>>
    /\ UNCHANGED <<mainVars, outfile, stdout, groupVars, eventVars>>

PrintSuccess ==
    /\ pc = "main_return"
    /\ stdout' = stdout \o <<Line("converted", <<>>), Line("grouped", <<>>),
                             Line("target", <<>>), Line("tags", <<>>)>>
    /\ pc' = "done"
    /\ UNCHANGED <<stack, mainVars, outfile, paramVars, groupVars, eventVars>>

(***************************************************************************)
(* main's inputs.                                                          *)
(***************************************************************************)
TierNames == {"words", "phones"}
TierArgs == TierNames \cup {"lyrics"}

TierContents ==
    {<<>>,
     <<Slot(1, TxtPadded), Slot(2, TxtBlank)>>,
     <<Slot(1, TxtWord), Slot(2, TxtMarked), Slot(3, TxtWord)>>,
     <<Slot(1, TxtPadded), Slot(2, <<" ", "a", " ">>)>>}

Files ==
    UNION {[1..k -> {[name |-> nm, intervals |-> c] : nm \in TierNames, c \in TierContents}] :
              k \in 0..2}

InitMain ==
    /\ pc = "main"
    /\ stack = <<>>
    /\ file \in Files
    /\ args \in [tier : TierArgs, phrase_marker : {EpsMarker}, min_phrase_gap : {0},
                 target_duration : {2 * TimeStep}, shift_time : {None, Some(0), Some(-15)}]
    /\ tiers = [keys |-> <<>>, items |-> <<>>]
    /\ outfile \in {NoFile, OldFile}
    /\ intervals = <<>>
    /\ phrase_marker = <<>>
    /\ min_phrase_gap = 0
    /\ target_duration = 0
    /\ shift_time = None
    /\ Fresh

(***************************************************************************)
(* Specifications: create_ass_file called on sorted intervals (Spec), on   *)
(* intervals in any order (SpecAny), on texts of every shape (SpecTexts),  *)
(* and the whole command (SpecMain).                                       *)
(***************************************************************************)
Next ==
    \/ FilterStep
    \/ GroupStep
    \/ GroupReturn
    \/ EventStep
    \/ WriteFile

NextMain ==
    \/ ParseTextgrid
    \/ TierNotFound
    \/ CallCreateAssFile
    \/ FilterStep
    \/ GroupStep
    \/ GroupReturn
    \/ EventStep
    \/ WriteFile
    \/ PrintSuccess

Spec == Init /\ [][Next]_vars
SpecAny == InitAny /\ [][Next]_vars
SpecTexts == InitTexts /\ [][Next]_vars
SpecMain == InitMain /\ [][NextMain]_vars

(***************************************************************************)
(* Helpers of the properties.                                              *)
(***************************************************************************)
RECURSIVE WordsOf(_, _)
WordsOf(ps, n) == IF n = 0 THEN <<>> ELSE WordsOf(ps, n - 1) \o ps[n].words

StartEnd(ws) == [i \in 1..Len(ws) |-> <<ws[i].start, ws[i].end>>]

Returned == pc # "group_into_phrases" /\ pc # "main" /\ pc # "main_check"

InSecondLoop == pc = "group_into_phrases" /\ fi > Len(intervals)

Span(x) == x.end - x.start

WellFormed(p) ==
    /\ p.words # <<>>
    /\ p.start = p.words[1].start
    /\ p.end = p.words[Len(p.words)].end

\* the word whose arrival closed the k-th phrase of acc.phrases
Trigger(k) ==
    IF k < Len(acc.phrases) THEN acc.phrases[k + 1].words[1] ELSE acc.current_words[1]

(***************************************************************************)
(* C1: the words of the returned phrases, taken in phrase order, are the   *)
(* retained intervals in their original order, each once, identified by    *)
(* (start, end); with nothing retained no phrase is returned.              *)
(***************************************************************************)
C1_Partition ==
    Returned =>
        /\ StartEnd(WordsOf(phrases, Len(phrases))) = StartEnd(filtered_intervals)
        /\ (filtered_intervals = <<>> => phrases = <<>>)

C1_Witness ==
    /\ Returned
    /\ Len(intervals) = 3
    /\ Len(filtered_intervals) = 2
    /\ Len(phrases) = 2

(***************************************************************************)
(* C2 as claimed: on sorted, non-overlapping input every phrase closed by  *)
(* a trigger spans at most target_duration plus the span of the word that  *)
(* triggered the close.                                                    *)
(***************************************************************************)
C2_Original ==
    \A k \in 1..Len(acc.phrases) :
        Span(acc.phrases[k]) <= target_duration + Span(Trigger(k))

(***************************************************************************)
(* C2 amended: the bound holds for every phrase closed by a trigger that   *)
(* has at least two words; a one-word phrase spans its only word.          *)
(***************************************************************************)
C2_Amended ==
    \A k \in 1..Len(acc.phrases) :
        /\ Len(acc.phrases[k].words) >= 2 =>
               Span(acc.phrases[k]) <= target_duration + Span(Trigger(k))
        /\ Len(acc.phrases[k].words) = 1 =>
               Span(acc.phrases[k]) = Span(acc.phrases[k].words[1])

C2_Witness ==
    \E k \in 1..Len(acc.phrases) :
        /\ Len(acc.phrases[k].words) >= 2
        /\ Span(acc.phrases[k]) = target_duration

C4_PhraseShape ==
    /\ \A k \in 1..Len(acc.phrases) : WellFormed(acc.phrases[k])
    /\ \A k \in 1..Len(phrases) : WellFormed(phrases[k])
    /\ gi > 1 =>
          /\ acc.current_start # None
          /\ acc.current_end # None
          /\ WellFormed([start |-> Val(acc.current_start), end |-> Val(acc.current_end),
                         words |-> acc.current_words])

C4_Witness ==
    /\ Returned
    /\ Len(phrases) = 2
    /\ Len(phrases[1].words) = 2
    /\ phrases[1].words[2].start < phrases[1].words[1].start

(***************************************************************************)
(* Helpers: reading a karaoke line back.                                   *)
(***************************************************************************)
\* the positions of the {\K} tags of the markup m, in order
TagPositions(m) == SelectSeq([i \in 1..Len(m) |-> i], LAMBDA i : m[i].k = "K")

\* what follows the j-th tag of m, up to the next tag or the end
Segment(m, j) ==
    LET pos == TagPositions(m)
        to  == IF j < Len(pos) THEN pos[j + 1] - 1 ELSE Len(m)
    IN  SubSeq(m, pos[j] + 1, to)

\* the line of words ws reads: no space before the first tag, one tag per
\* word carrying its whole centiseconds, then the word's text, one space,
\* and one more space exactly when the next word has the marker
ReadsAs(m, ws) ==
    LET pos == TagPositions(m)
    IN  /\ Len(pos) = Len(ws)
        /\ (ws # <<>> => pos[1] = 1)
        /\ (ws = <<>> => m = <<>>)
        /\ \A j \in 1..Len(ws) :
              /\ 10 * m[pos[j]].n <= Span(ws[j])
              /\ Span(ws[j]) < 10 * (m[pos[j]].n + 1)
              /\ Segment(m, j) =
                    Chars(ws[j].text) \o <<Chr(" ")>> \o
                    (IF j < Len(ws) /\ ws[j + 1].has_marker THEN <<Chr(" ")>> ELSE <<>>)

C8_Original ==
    \A k \in 1..Len(events) :
        events[k].text[1] = Tag((-Val(shift_time)) \div 10)

(***************************************************************************)
(* C8 amended: the lead-in tag carries -shift_time * 100 truncated toward  *)
(* zero: floor(-shift_time * 100) when shift_time <= 0, and                *)
(* -floor(shift_time * 100) when shift_time > 0.                           *)
(***************************************************************************)
C8_Amended ==
    \A k \in 1..Len(events) :
        LET lead == events[k].text[1]
            s    == Val(shift_time)
        IN  /\ lead.k = "K"
            /\ s <= 0 => 10 * lead.n <= -s /\ -s < 10 * (lead.n + 1)
            /\ s > 0  => lead.n <= 0 /\ 10 * (-lead.n) <= s /\ s < 10 * (-lead.n + 1)

C8_Witness ==
    /\ Len(events) >= 2
    /\ shift_time = Some(-500)
    /\ events[2].text[1] = Tag(50)

(***************************************************************************)
(* C10 as claimed: for sorted, non-overlapping input and any shift_time,   *)
(* the displayed start max(0, phrase.start + shift_time) of an emitted     *)
(* line is not after its displayed end phrase.end.                         *)
(***************************************************************************)
C10_Original ==
    (pc = "create_ass_file" /\ ei > 1) =>
        Val(shifted_start) <= phrases[ei - 1].end

(***************************************************************************)
(* C10 amended: the displayed start is not after the displayed end for     *)
(* every shift_time that does not exceed the phrase's own span             *)
(* phrase.end - phrase.start, so for every shift_time <= 0.                *)
(***************************************************************************)
C10_Amended ==
    (pc = "create_ass_file" /\ ei > 1) =>
        (Val(shift_time) <= Span(phrases[ei - 1]) =>
             Val(shifted_start) <= phrases[ei - 1].end)

C10_Witness ==
    /\ pc = "create_ass_file"
    /\ ei > 2
    /\ Val(shift_time) < 0
    /\ phrases[ei - 1].start > 0
    /\ Val(shifted_start) = 0

(***************************************************************************)
(* Helpers: the preprocessing as the specification words it.               *)
(***************************************************************************)
\* the text, trimmed, is empty or the silence token
TrimmedIsSilence(text) == strip(text) = <<>> \/ strip(text) = SilenceToken

RECURSIVE RetainedOf(_, _, _)
RetainedOf(ivs, n, marker) ==
    IF n = 0 THEN <<>>
    ELSE IF TrimmedIsSilence(ivs[n].text)
         THEN RetainedOf(ivs, n - 1, marker)
         ELSE Append(RetainedOf(ivs, n - 1, marker),
                     [start |-> ivs[n].start, end |-> ivs[n].end, text |-> ivs[n].text,
                      has_marker |-> contains(marker, ivs[n].text)])

(***************************************************************************)
(* C9: the preprocessing discards an interval exactly when its trimmed     *)
(* text is empty or the silence token <p:>, and keeps every other          *)
(* interval with has_marker computed on the untrimmed text.                *)
(***************************************************************************)
C9_Claim ==
    (pc = "group_into_phrases" /\ fi > Len(intervals)) =>
        filtered_intervals = RetainedOf(intervals, Len(intervals), phrase_marker)

(***************************************************************************)
(* C5: run without the time-shift option, on a tier with a retained word,  *)
(* the command ends without error, having written lines whose start is     *)
(* the phrase's start and whose lead-in tag is {\K0}.                      *)
(***************************************************************************)
C5_Claim ==
    (/\ args.shift_time = None
     /\ pc \in {"done", "TypeError", "KeyError"}
     /\ has_tier(tiers, args.tier)
     /\ filtered_intervals # <<>>)
    => /\ pc = "done"
       /\ outfile.exists
       /\ Len(events) = Len(phrases)
       /\ outfile.events = <<"header">> \o events
       /\ \A k \in 1..Len(events) :
             /\ events[k].start_time = format_time(phrases[k].start)
             /\ events[k].text[1] = Tag(0)

(***************************************************************************)
(* C6: when the requested tier is not among the parsed tiers, main prints  *)
(* the available tier names and ends: create_ass_file is not called, the   *)
(* output file stays as it was and no success summary is printed.          *)
(***************************************************************************)
C6_MissingTier ==
    (pc # "main" /\ ~has_tier(tiers, args.tier)) =>
        /\ pc \in {"main_check", "done"}
        /\ outfile \in {NoFile, OldFile}
        /\ stack = <<>>
        /\ events = <<>>
        /\ pc = "main_check" => stdout = <<>>
        /\ pc = "done" =>
              /\ Len(stdout) = 1
              /\ stdout[1].msg = "not found"
              /\ {stdout[1].tiers[j] : j \in 1..Len(stdout[1].tiers)}
                    = {file[i].name : i \in 1..Len(file)}

C6_Witness ==
    /\ pc = "done"
    /\ ~has_tier(tiers, args.tier)
    /\ Len(tiers.keys) = 2
    /\ outfile = OldFile
    /\ Len(stdout) = 1

====
